---- MODULE Spec2Model ----
(***************************************************************************)
(* Model of the musicjam-scheduler-pro server models:                      *)
(*   - Rehearsal (server/src/models/Rehearsal.js): the stored rehearsals,  *)
(*     the venue conflict query checkForConflicts, the schema validation   *)
(*     run by save, and the attendee list methods;                         *)
(*   - Group (server/src/models/Group.js): the member list methods.        *)
(***************************************************************************)
EXTENDS Integers, Sequences, FiniteSets, TLC

VARIABLES store, call, last, wpc, wcand, wres, members, isNew, gret, attendees, aret, rp

vars == <<store, call, last, wpc, wcand, wres, members, isNew, gret, attendees, aret, rp>>

(***************************************************************************)
(* Bounds of the model.                                                    *)
(***************************************************************************)
MaxTime == 2
MaxRehearsals == 2

Times == 0..MaxTime
Ids == 1..MaxRehearsals

\* venueId is an optional reference: NoVenue stands for null / undefined.
NoVenue == "null"
Venues == {"v1", "v2"}
VenueIds == Venues \cup {NoVenue}

\* excludeId = null (the parameter's default)
NoId == 0

Users == {"u1", "u2", "u3"}

\* an argument the caller left out
Undefined == "undefined"

(***************************************************************************)
(* Rehearsal documents.                                                    *)
(***************************************************************************)
AttendeeLists == {<<>>, <<[userId |-> "u1", status |-> "pending"]>>}

\* RehearsalSchema: the fields the scheduling logic reads.
RehearsalSchema(i, v, s, e, a) ==
    [_id |-> i, venueId |-> v, startDateTime |-> s, endDateTime |-> e, attendees |-> a]

\* no document stored under an _id
NoDoc == [_id |-> NoId, venueId |-> NoVenue, startDateTime |-> 0, endDateTime |-> 0,
          attendees |-> <<>>]

\* endDateTime.validate.validator: value > this.startDateTime
endDateTimeValidator(s, e) == e > s

\* The documents a save can have persisted under _id i.
ValidDocs(i) ==
    {d \in [_id : {i}, venueId : VenueIds, startDateTime : Times,
            endDateTime : Times, attendees : {<<>>}] :
        endDateTimeValidator(d.startDateTime, d.endDateTime)}

\* The stored documents of the collection.
Stored(st) == {st[i] : i \in {j \in Ids : st[j] # NoDoc}}

(***************************************************************************)
(* checkForConflicts                                                       *)
(***************************************************************************)
\* the $or clause of the query with the two arguments swapped
OverlapsSwapped(r, s, e) == r.startDateTime < s /\ r.endDateTime > e

\* the $or clause of the query with $gte for $gt
OverlapsGte(r, s, e) == r.startDateTime < e /\ r.endDateTime >= s

\* the $or clause of the query with $lte for $lt
OverlapsLte(r, s, e) == r.startDateTime <= e /\ r.endDateTime > s

\* { startDateTime: { $lt: endDateTime }, endDateTime: { $gt: startDateTime } }
Overlaps(r, s, e) == r.startDateTime < e /\ r.endDateTime > s

\* the query without the _id: { $ne: excludeId } clause
MatchesIgnoringExclude(r, venueId, s, e, excludeId) ==
    r.venueId = venueId /\ Overlaps(r, s, e)

\* A document matches the query object built by checkForConflicts.
Matches(r, venueId, s, e, excludeId) ==
    /\ r.venueId = venueId
    /\ Overlaps(r, s, e)
    /\ (excludeId # NoId => r._id # excludeId)

\* this.find(query)
find(st, venueId, s, e, excludeId) ==
    {r \in Stored(st) : Matches(r, venueId, s, e, excludeId)}

\* checkForConflicts without the early return on a missing venueId
checkForConflictsNoGuard(st, venueId, s, e, excludeId) ==
    Cardinality(find(st, venueId, s, e, excludeId)) > 0

checkForConflicts(st, venueId, s, e, excludeId) ==
    IF venueId = NoVenue
    THEN FALSE
    ELSE Cardinality(find(st, venueId, s, e, excludeId)) > 0

BoolStr(b) == IF b THEN "true" ELSE "false"

\* Values of the variables a specification does not use.
EmptyStore == [i \in Ids |-> NoDoc]
\* call: the arguments of a checkForConflicts call, what it returned and the
\* collection as it was when the call was made.
NoCall == [venueId |-> NoVenue, startDateTime |-> 0, endDateTime |-> 0,
           excludeId |-> NoId, returned |-> "none", before |-> EmptyStore]
\* last: the last operation on the collection and its outcome.
NoOp == [op |-> "init", outcome |-> "none"]
Writers == {"w1", "w2"}

IdleStore == store = EmptyStore /\ last = NoOp
IdleCall == call = NoCall
IdleWriters == /\ wpc = [w \in Writers |-> "idle"]
               /\ wcand = [w \in Writers |-> NoDoc]
               /\ wres = [w \in Writers |-> [returned |-> "none", seen |-> {}]]
\* gret / aret: the last group (attendee) method called, its arguments, what
\* it returned and the list as it was when it was called.
NoGroupCall == [op |-> "init", userId |-> "none", role |-> "none", returned |-> FALSE,
                before |-> <<>>]
NoAttendeeCall == [op |-> "init", userId |-> "none", status |-> "none",
                   returned |-> FALSE, before |-> <<>>]
IdleGroup == members = <<>> /\ isNew = FALSE /\ gret = NoGroupCall
IdleAttendees == attendees = <<>> /\ aret = NoAttendeeCall
\* rp: a rehearsal's startDateTime and the recurringPattern it is saved with
\* (hasDayOfWeek / hasEndDate: the field was supplied), and the outcome.
NoPattern == [startDateTime |-> 0, frequency |-> "none", hasDayOfWeek |-> FALSE,
              dayOfWeek |-> 0, interval |-> 1, hasEndDate |-> FALSE, endDate |-> 0,
              outcome |-> "none", stored |-> FALSE]
IdlePattern == rp = NoPattern

(***************************************************************************)
(* SpecCheck: checkForConflicts as a function of the collection and its    *)
(* arguments.  Init draws a collection of validated documents and the      *)
(* arguments of one call; the action makes the call.                       *)
(***************************************************************************)
InitCheck ==
    /\ store \in [Ids -> UNION {ValidDocs(i) : i \in Ids} \cup {NoDoc}]
    /\ \A i \in Ids : store[i] \in ValidDocs(i) \cup {NoDoc}
    /\ \E v \in VenueIds, s \in Times, e \in Times, x \in Ids \cup {NoId} :
          call = [venueId |-> v, startDateTime |-> s, endDateTime |-> e,
                  excludeId |-> x, returned |-> "none", before |-> EmptyStore]
    /\ last = NoOp
    /\ IdlePattern /\ IdleWriters /\ IdleGroup /\ IdleAttendees

\* a conflict query that deletes the documents it matched
CheckForConflictsCallDeleting ==
    /\ call.returned = "none"
    /\ call' = [call EXCEPT !.returned =
                  BoolStr(checkForConflicts(store, call.venueId, call.startDateTime,
                                            call.endDateTime, call.excludeId)),
                            !.before = store]
    /\ store' = [i \in Ids |->
                    IF store[i] \in find(store, call.venueId, call.startDateTime,
                                         call.endDateTime, call.excludeId)
                    THEN NoDoc ELSE store[i]]
    /\ UNCHANGED <<last, wpc, wcand, wres, members, isNew, gret, attendees, aret, rp>>

\* await this.find(query); return conflicts.length > 0
CheckForConflictsCall ==
    /\ call.returned = "none"
    /\ call' = [call EXCEPT !.returned =
                  BoolStr(checkForConflicts(store, call.venueId, call.startDateTime,
                                            call.endDateTime, call.excludeId)),
                            !.before = store]
    /\ UNCHANGED <<store, last, wpc, wcand, wres, members, isNew, gret, attendees, aret, rp>>

NextCheck == CheckForConflictsCall

SpecCheck == InitCheck /\ [][NextCheck]_vars

(***************************************************************************)
(* Spec: the rehearsal collection under document saves and conflict        *)
(* queries.  A save runs the schema's validators and persists the document *)
(* when they pass; nothing in the schema runs checkForConflicts.           *)
(***************************************************************************)
Init ==
    /\ IdleStore /\ IdleCall /\ IdlePattern /\ IdleWriters /\ IdleGroup /\ IdleAttendees

\* document.save(): validate, then write the document under its _id.
save(st, d) ==
    IF endDateTimeValidator(d.startDateTime, d.endDateTime)
    THEN [st EXCEPT ![d._id] = d]
    ELSE st

SaveOutcome(d) ==
    IF endDateTimeValidator(d.startDateTime, d.endDateTime)
    THEN "saved" ELSE "ValidationError"

\* Save of a new rehearsal document.
Create(i, v, s, e, a) ==
    /\ store[i] = NoDoc
    /\ store' = save(store, RehearsalSchema(i, v, s, e, a))
    /\ last' = [op |-> "create", outcome |-> SaveOutcome(RehearsalSchema(i, v, s, e, a))]
    /\ UNCHANGED <<call, wpc, wcand, wres, members, isNew, gret, attendees, aret, rp>>

\* Save of a stored rehearsal document after its venue and times were set.
Update(i, v, s, e) ==
    /\ store[i] # NoDoc
    /\ store' = save(store, [store[i] EXCEPT !.venueId = v, !.startDateTime = s,
                                             !.endDateTime = e])
    /\ last' = [op |-> "update",
                outcome |-> SaveOutcome(RehearsalSchema(i, v, s, e, store[i].attendees))]
    /\ UNCHANGED <<call, wpc, wcand, wres, members, isNew, gret, attendees, aret, rp>>

\* A call of checkForConflicts on the collection.
CheckForConflictsRead(v, s, e, x) ==
    /\ last' = [op |-> "checkForConflicts",
                outcome |-> BoolStr(checkForConflicts(store, v, s, e, x))]
    /\ UNCHANGED <<store, call, wpc, wcand, wres, members, isNew, gret, attendees, aret, rp>>

Next ==
    \/ \E i \in Ids, v \in VenueIds, s \in Times, e \in Times, a \in AttendeeLists :
          Create(i, v, s, e, a)
    \/ \E i \in Ids, v \in VenueIds, s \in Times, e \in Times : Update(i, v, s, e)
    \/ \E v \in VenueIds, s \in Times, e \in Times, x \in Ids \cup {NoId} :
          CheckForConflictsRead(v, s, e, x)

Spec == Init /\ [][Next]_vars

\* C2 (as claimed): no two persisted rehearsals at the same venue overlap.
C2_NoVenueOverlap ==
    \A i \in Ids, j \in Ids :
        (/\ i # j /\ store[i] # NoDoc /\ store[j] # NoDoc
         /\ store[i].venueId # NoVenue /\ store[i].venueId = store[j].venueId) =>
            ~(/\ store[i].startDateTime < store[j].endDateTime
              /\ store[j].startDateTime < store[i].endDateTime)

(***************************************************************************)
(* SpecRace: two request handlers that each await checkForConflicts and    *)
(* then save a new rehearsal.  The check and the save are separate         *)
(* operations on the collection, so the other handler can run between them.*)
(***************************************************************************)
WriterId(w) == IF w = "w1" THEN 1 ELSE MaxRehearsals

InitRace ==
    /\ IdleStore /\ IdleCall /\ IdlePattern /\ IdleWriters /\ IdleGroup /\ IdleAttendees

\* The handler builds its candidate and awaits checkForConflicts.
WriterCheck(w, v, s, e) ==
    /\ wpc[w] = "idle"
    /\ wcand' = [wcand EXCEPT ![w] = RehearsalSchema(WriterId(w), v, s, e, <<>>)]
    /\ wres' = [wres EXCEPT ![w] =
                  [returned |-> BoolStr(checkForConflicts(store, v, s, e, NoId)),
                   seen |-> {i \in Ids : store[i] # NoDoc}]]
    /\ wpc' = [wpc EXCEPT ![w] = "checked"]
    /\ UNCHANGED <<store, call, last, members, isNew, gret, attendees, aret, rp>>

\* The check returned false: the handler saves its candidate.
WriterPersist(w) ==
    /\ wpc[w] = "checked" /\ wres[w].returned = "false"
    /\ store' = save(store, wcand[w])
    /\ wpc' = [wpc EXCEPT ![w] =
                 IF SaveOutcome(wcand[w]) = "saved" THEN "done" ELSE "invalid"]
    /\ UNCHANGED <<call, last, wcand, wres, members, isNew, gret, attendees, aret, rp>>

\* The check returned true: the handler reports the conflict and saves nothing.
WriterReject(w) ==
    /\ wpc[w] = "checked" /\ wres[w].returned = "true"
    /\ wpc' = [wpc EXCEPT ![w] = "rejected"]
    /\ UNCHANGED <<store, call, last, wcand, wres, members, isNew, gret, attendees, aret, rp>>

NextRace ==
    \/ \E w \in Writers, v \in VenueIds, s \in Times, e \in Times : WriterCheck(w, v, s, e)
    \/ \E w \in Writers : WriterPersist(w)
    \/ \E w \in Writers : WriterReject(w)

SpecRace == InitRace /\ [][NextRace]_vars

\* Both handlers saved, and their rehearsals overlap at one venue.
BothPersistedOverlapping ==
    /\ \A w \in Writers : wpc[w] = "done"
    /\ wcand["w1"].venueId # NoVenue
    /\ wcand["w1"].venueId = wcand["w2"].venueId
    /\ wcand["w1"].startDateTime < wcand["w2"].endDateTime
    /\ wcand["w2"].startDateTime < wcand["w1"].endDateTime

\* C5: two check-then-save handlers can both persist overlapping rehearsals
\* at one venue (the witness), and they do so only by the interleaving in
\* which both checks returned false because each ran before the other's
\* save: a check made after the other's save excludes the overlap.
C5_OverlapOnlyByRace ==
    BothPersistedOverlapping =>
        \A w \in Writers, u \in Writers :
            w # u => /\ wres[w].returned = "false"
                     /\ WriterId(u) \notin wres[w].seen

\* C5 witness: both checks returned false and both overlapping rehearsals are
\* in the collection.
C5_Witness ==
    /\ BothPersistedOverlapping
    /\ \A w \in Writers : wres[w].returned = "false" /\ store[WriterId(w)] = wcand[w]

(***************************************************************************)
(* SpecGroup: one Group document and its member methods.  A member is      *)
(* {userId, role}; instruments and joinedAt are carried along unread by    *)
(* the methods and are left out.                                           *)
(***************************************************************************)
MaxInitMembers == 1

\* MemberSchema.role enum
Roles == {"member", "admin", "owner"}
MemberSchema(userId, role) == [userId |-> userId, role |-> role]

\* Group.createdBy
createdBy == "u1"

SeqsUpTo(S, n) == UNION {[1..k -> S] : k \in 0..n}

isMember(ms, userId) == \E k \in 1..Len(ms) : ms[k].userId = userId

isOwner(ms, userId) ==
    \E k \in 1..Len(ms) : ms[k].userId = userId /\ ms[k].role = "owner"

\* A group built with a members list, not saved yet.
InitGroup ==
    /\ members \in SeqsUpTo([userId : Users, role : Roles], MaxInitMembers)
    /\ isNew = TRUE
    /\ gret = NoGroupCall
    /\ IdleStore /\ IdleCall /\ IdlePattern /\ IdleWriters /\ IdleAttendees

GroupFrame == UNCHANGED <<store, call, last, wpc, wcand, wres, attendees, aret, rp>>

\* GroupSchema.pre('save') followed by the save, after which isNew is false.
preSave ==
    /\ members' = IF isNew /\ ~isMember(members, createdBy)
                  THEN Append(members, MemberSchema(createdBy, "owner"))
                  ELSE members
    /\ isNew' = FALSE
    /\ gret' = [op |-> "save", userId |-> createdBy,
                role |-> IF isNew THEN "new" ELSE "saved",
                returned |-> TRUE, before |-> members]
    /\ GroupFrame

\* addMember without the isMember check
addMemberAlwaysPush(userId, role) ==
    /\ members' = Append(members,
                        MemberSchema(userId, IF role = Undefined THEN "member" ELSE role))
    /\ gret' = [op |-> "addMember", userId |-> userId, role |-> role,
                returned |-> TRUE, before |-> members]
    /\ UNCHANGED isNew
    /\ GroupFrame

addMember(userId, role) ==
    /\ IF isMember(members, userId)
       THEN /\ members' = members
            /\ gret' = [op |-> "addMember", userId |-> userId, role |-> role,
                        returned |-> FALSE, before |-> members]
       ELSE /\ members' = Append(members,
                    MemberSchema(userId, IF role = Undefined THEN "member" ELSE role))
            /\ gret' = [op |-> "addMember", userId |-> userId, role |-> role,
                        returned |-> TRUE, before |-> members]
    /\ UNCHANGED isNew
    /\ GroupFrame

\* removeMember without the isOwner check
removeMemberNoOwnerGuard(userId) ==
    /\ IF ~isMember(members, userId)
       THEN /\ members' = members
            /\ gret' = [op |-> "removeMember", userId |-> userId, role |-> "none",
                        returned |-> FALSE, before |-> members]
       ELSE /\ members' = SelectSeq(members, LAMBDA m : m.userId # userId)
            /\ gret' = [op |-> "removeMember", userId |-> userId, role |-> "none",
                        returned |-> TRUE, before |-> members]
    /\ UNCHANGED isNew
    /\ GroupFrame

removeMember(userId) ==
    /\ IF ~isMember(members, userId) \/ isOwner(members, userId)
       THEN /\ members' = members
            /\ gret' = [op |-> "removeMember", userId |-> userId, role |-> "none",
                        returned |-> FALSE, before |-> members]
       ELSE /\ members' = SelectSeq(members, LAMBDA m : m.userId # userId)
            /\ gret' = [op |-> "removeMember", userId |-> userId, role |-> "none",
                        returned |-> TRUE, before |-> members]
    /\ UNCHANGED isNew
    /\ GroupFrame

updateMemberRole(userId, newRole) ==
    /\ IF \/ ~isMember(members, userId)
          \/ (isOwner(members, userId) /\ newRole # "owner")
       THEN /\ members' = members
            /\ gret' = [op |-> "updateMemberRole", userId |-> userId, role |-> newRole,
                        returned |-> FALSE, before |-> members]
       ELSE /\ members' = [k \in 1..Len(members) |->
                             IF members[k].userId = userId
                             THEN [members[k] EXCEPT !.role = newRole]
                             ELSE members[k]]
            /\ gret' = [op |-> "updateMemberRole", userId |-> userId, role |-> newRole,
                        returned |-> TRUE, before |-> members]
    /\ UNCHANGED isNew
    /\ GroupFrame

NextGroup ==
    \/ preSave
    \/ \E u \in Users, r \in Roles \cup {Undefined} : addMember(u, r)
    \/ \E u \in Users : removeMember(u)
    \/ \E u \in Users, r \in Roles : updateMemberRole(u, r)

SpecGroup == InitGroup /\ [][NextGroup]_vars

\* The entries of a user that hold the owner role.
OwnerEntries(ms, userId) ==
    SelectSeq(ms, LAMBDA m : m.userId = userId /\ m.role = "owner")

\* C9: a call never takes an owner's entry off the list nor gives it another
\* role, and removeMember on an owner, like updateMemberRole on an owner with
\* a role other than owner, returns false and leaves the list as it was.
C9_OwnerKept ==
    /\ \A u \in Users :
          isOwner(gret.before, u) =>
             /\ isOwner(members, u)
             /\ Len(OwnerEntries(members, u)) >= Len(OwnerEntries(gret.before, u))
    /\ (/\ isOwner(gret.before, gret.userId)
        /\ \/ gret.op = "removeMember"
           \/ gret.op = "updateMemberRole" /\ gret.role # "owner") =>
          (gret.returned = FALSE /\ members = gret.before)

\* C9 witness: removeMember was called on an owner of a group with other
\* members and returned false.
C9_Witness ==
    /\ gret.op = "removeMember" /\ isOwner(gret.before, gret.userId)
    /\ gret.returned = FALSE /\ Len(members) > 1

\* The entries of the users other than userId, in order.
OtherEntries(ms, userId) == SelectSeq(ms, LAMBDA m : m.userId # userId)

UniqueUserIds(ms) ==
    \A j \in 1..Len(ms), k \in 1..Len(ms) : ms[j].userId = ms[k].userId => j = k

MemberMethods == {"addMember", "removeMember", "updateMemberRole"}

C15_CreatorIsOwner ==
    /\ ~isNew => isOwner(members, createdBy)
    /\ (gret.op = "save" /\ gret.role = "saved") => members = gret.before

(***************************************************************************)
(* SpecAttendee: the attendee list of one Rehearsal document under         *)
(* addAttendee and updateAttendeeStatus.  An attendee is {userId, status,  *)
(* responseTime}; responseTime is "set" (a Date) or Undefined.             *)
(***************************************************************************)
\* AttendeeSchema.status enum
Statuses == {"confirmed", "declined", "pending"}
\* what a caller can pass as status: an enum value, another string, or nothing
StatusArgs == Statuses \cup {"maybe", Undefined}

AttendeeSchema(userId, status, responseTime) ==
    [userId |-> userId, status |-> status, responseTime |-> responseTime]

\* this.attendees.findIndex(attendee => attendee.userId === userId); 0 for -1
findIndex(as, userId) ==
    IF \E k \in 1..Len(as) : as[k].userId = userId
    THEN CHOOSE k \in 1..Len(as) :
            /\ as[k].userId = userId
            /\ \A j \in 1..(k - 1) : as[j].userId # userId
    ELSE 0

InitAttendee ==
    /\ attendees = <<>>
    /\ aret = NoAttendeeCall
    /\ IdleStore /\ IdleCall /\ IdlePattern /\ IdleWriters /\ IdleGroup

AttendeeFrame == UNCHANGED <<store, call, last, wpc, wcand, wres, members, isNew, gret, rp>>

\* the parameter default: status = 'pending' when the argument is undefined
DefaultStatus(status) == IF status = Undefined THEN "pending" ELSE status

\* addAttendee that leaves the entry of a user already on the list alone
addAttendeeKeepExisting(userId, status) ==
    /\ attendees' =
          IF findIndex(attendees, userId) > 0
          THEN attendees
          ELSE Append(attendees,
                      AttendeeSchema(userId, DefaultStatus(status),
                                     IF DefaultStatus(status) # "pending"
                                     THEN "set" ELSE Undefined))
    /\ aret' = [op |-> "addAttendee", userId |-> userId, status |-> status,
                returned |-> TRUE, before |-> attendees]
    /\ AttendeeFrame

\* addAttendee that pushes a new entry without looking for the user
addAttendeeAlwaysPush(userId, status) ==
    /\ attendees' = Append(attendees,
                          AttendeeSchema(userId, DefaultStatus(status),
                                         IF DefaultStatus(status) # "pending"
                                         THEN "set" ELSE Undefined))
    /\ aret' = [op |-> "addAttendee", userId |-> userId, status |-> status,
                returned |-> TRUE, before |-> attendees]
    /\ AttendeeFrame

addAttendee(userId, status) ==
    /\ attendees' =
          IF findIndex(attendees, userId) > 0
          THEN [attendees EXCEPT ![findIndex(attendees, userId)] =
                   AttendeeSchema(userId, DefaultStatus(status), "set")]
          ELSE Append(attendees,
                      AttendeeSchema(userId, DefaultStatus(status),
                                     IF DefaultStatus(status) # "pending"
                                     THEN "set" ELSE Undefined))
    /\ aret' = [op |-> "addAttendee", userId |-> userId, status |-> status,
                returned |-> TRUE, before |-> attendees]
    /\ AttendeeFrame

updateAttendeeStatus(userId, status) ==
    /\ IF findIndex(attendees, userId) = 0
       THEN /\ attendees' = attendees
            /\ aret' = [op |-> "updateAttendeeStatus", userId |-> userId,
                        status |-> status, returned |-> FALSE, before |-> attendees]
       ELSE /\ attendees' = [attendees EXCEPT ![findIndex(attendees, userId)] =
                               AttendeeSchema(userId, status, "set")]
            /\ aret' = [op |-> "updateAttendeeStatus", userId |-> userId,
                        status |-> status, returned |-> TRUE, before |-> attendees]
    /\ AttendeeFrame

\* RehearsalSchema.virtual('attendanceStats'): stats[attendee.status]++ counts
\* the three enum values; for any other status it makes a NaN property of
\* that name and counts nothing.
CountStatus(as, s) == Cardinality({k \in 1..Len(as) : as[k].status = s})

attendanceStats(as) ==
    [confirmed |-> CountStatus(as, "confirmed"),
     declined |-> CountStatus(as, "declined"),
     pending |-> CountStatus(as, "pending"),
     total |-> Len(as)]

NextAttendee ==
    \/ \E u \in Users, s \in StatusArgs : addAttendee(u, s)
    \/ \E u \in Users, s \in StatusArgs : updateAttendeeStatus(u, s)

SpecAttendee == InitAttendee /\ [][NextAttendee]_vars

\* The status of the first entry of a user on the list.
StatusOf(as, userId) == as[findIndex(as, userId)].status

\* C10 (as claimed): a user first added without a status is pending, and the
\* status of a user on the list changes only in a call for that user that
\* supplies a status.
C10_StatusOnlyExplicit ==
    /\ (/\ aret.op = "addAttendee" /\ aret.status = Undefined
        /\ findIndex(aret.before, aret.userId) = 0) =>
          StatusOf(attendees, aret.userId) = "pending"
    /\ \A u \in Users :
          (/\ findIndex(aret.before, u) > 0
           /\ StatusOf(attendees, u) # StatusOf(aret.before, u)) =>
              (aret.userId = u /\ aret.status # Undefined)

(***************************************************************************)
(* SpecPattern: the validation of a rehearsal's recurringPattern on save.  *)
(* Init draws the rehearsal's start and the pattern's fields; the action   *)
(* saves the rehearsal.                                                    *)
(***************************************************************************)
\* RecurringPatternSchema.frequency enum
Frequencies == {"weekly", "biweekly", "monthly"}
\* values a caller can pass
FrequencyArgs == Frequencies \cup {"daily"}
DayOfWeekArgs == {-1, 0, 3, 6, 7}
IntervalArgs == {-1, 0, 1, 2}

\* frequency: required, enum
frequencyValid(p) == p.frequency \in Frequencies

\* dayOfWeek: min 0, max 6, required for weekly and biweekly
dayOfWeekRequired(p) == p.frequency = "weekly" \/ p.frequency = "biweekly"
dayOfWeekValid(p) ==
    IF p.hasDayOfWeek
    THEN p.dayOfWeek >= 0 /\ p.dayOfWeek <= 6
    ELSE ~dayOfWeekRequired(p)

\* interval: min 1 (default 1)
intervalValid(p) == p.interval >= 1

\* endDate: required
endDateValid(p) == p.hasEndDate

\* The validators of RecurringPatternSchema all pass.
RecurringPatternValid(p) ==
    frequencyValid(p) /\ dayOfWeekValid(p) /\ intervalValid(p) /\ endDateValid(p)

InitPattern ==
    /\ \E s \in Times, f \in FrequencyArgs, hd \in BOOLEAN, d \in DayOfWeekArgs,
          n \in IntervalArgs, he \in BOOLEAN, ed \in Times :
          /\ (~hd => d = 0) /\ (~he => ed = 0)
          /\ rp = [startDateTime |-> s, frequency |-> f, hasDayOfWeek |-> hd,
                   dayOfWeek |-> d, interval |-> n, hasEndDate |-> he, endDate |-> ed,
                   outcome |-> "none", stored |-> FALSE]
    /\ IdleStore /\ IdleCall /\ IdleWriters /\ IdleGroup /\ IdleAttendees

\* Save of a recurring rehearsal: the sub-schema's validators run, and the
\* pattern is persisted when they pass.
SavePattern ==
    /\ rp.outcome = "none"
    /\ rp' = [rp EXCEPT !.outcome = IF RecurringPatternValid(rp)
                                    THEN "saved" ELSE "ValidationError",
                        !.stored = RecurringPatternValid(rp)]
    /\ UNCHANGED <<store, call, last, wpc, wcand, wres, members, isNew, gret,
                   attendees, aret>>

NextPattern == SavePattern

SpecPattern == InitPattern /\ [][NextPattern]_vars

\* C11 (as claimed): a pattern with interval <= 0, or weekly / biweekly
\* without dayOfWeek, or with endDate before the rehearsal's start, is
\* rejected and not stored.
C11_InvalidPatternRejected ==
    (/\ rp.outcome # "none"
     /\ \/ rp.interval <= 0
        \/ dayOfWeekRequired(rp) /\ ~rp.hasDayOfWeek
        \/ rp.hasEndDate /\ rp.endDate < rp.startDateTime) =>
        (rp.outcome = "ValidationError" /\ ~rp.stored)

\* C17 (as claimed): in every state the stats add up, confirmed + declined +
\* pending = total = number of attendees, and every attendee's status is one
\* of confirmed, declined, pending.
C17_StatsAddUp ==
    /\ attendanceStats(attendees).confirmed + attendanceStats(attendees).declined
          + attendanceStats(attendees).pending = attendanceStats(attendees).total
    /\ attendanceStats(attendees).total = Len(attendees)
    /\ \A k \in 1..Len(attendees) : attendees[k].status \in Statuses

\* The userIds of a list, in order.
UserIds(as) == [k \in 1..Len(as) |-> as[k].userId]

\* C16: the list holds at most one entry per userId; addAttendee for a user on
\* the list keeps the list's length and order, and updateAttendeeStatus
\* neither adds nor removes an entry and returns false, leaving the list as
\* it was, for a user not on it.
C16_OneEntryPerUser ==
    /\ \A j \in 1..Len(attendees), k \in 1..Len(attendees) :
          attendees[j].userId = attendees[k].userId => j = k
    /\ (aret.op = "addAttendee" /\ findIndex(aret.before, aret.userId) > 0) =>
          UserIds(attendees) = UserIds(aret.before)
    /\ aret.op = "updateAttendeeStatus" =>
          /\ UserIds(attendees) = UserIds(aret.before)
          /\ findIndex(aret.before, aret.userId) = 0 =>
                (aret.returned = FALSE /\ attendees = aret.before)

\* C16 witness: addAttendee was called for a user already on a list of
\* several attendees and changed that user's status.
C16_Witness ==
    /\ aret.op = "addAttendee" /\ findIndex(aret.before, aret.userId) > 0
    /\ Len(attendees) > 1
    /\ attendees # aret.before

(***************************************************************************)
(* Claims about checkForConflicts (SpecCheck).                             *)
(***************************************************************************)
Returned == call.returned # "none"

\* A collection holding the single document d.
Only(d) == [i \in Ids |-> IF i = d._id THEN d ELSE NoDoc]

\* C1: for a present venue and no excludeId, checkForConflicts returns true
\* exactly when some stored rehearsal at that venue starts before the
\* candidate's end and ends after the candidate's start (half-open overlap),
\* so touching endpoints are no conflict.
C1_HalfOpenOverlap ==
    (Returned /\ call.venueId # NoVenue /\ call.excludeId = NoId) =>
        ((call.returned = "true") <=>
            \E i \in Ids :
                /\ store[i] # NoDoc
                /\ store[i].venueId = call.venueId
                /\ store[i].startDateTime < call.endDateTime
                /\ store[i].endDateTime > call.startDateTime)

\* C1 witness: the candidate starts exactly when a stored rehearsal at the
\* venue ends, another stored rehearsal starts exactly when it ends, and the
\* call returned false.
C1_Witness ==
    /\ call.returned = "false" /\ call.venueId # NoVenue /\ call.excludeId = NoId
    /\ \E i \in Ids : /\ store[i] # NoDoc /\ store[i].venueId = call.venueId
                      /\ store[i].endDateTime = call.startDateTime
    /\ \E i \in Ids : /\ store[i] # NoDoc /\ store[i].venueId = call.venueId
                      /\ store[i].startDateTime = call.endDateTime

\* C3: with venueId absent the call returns false, whatever the interval and
\* the collection.
C3_NoVenueNoConflict ==
    (Returned /\ call.venueId = NoVenue) => call.returned = "false"

\* C3 witness: the call without a venue returned although a stored rehearsal
\* without a venue overlaps the candidate.
C3_Witness ==
    /\ Returned /\ call.venueId = NoVenue
    /\ \E i \in Ids : /\ store[i] # NoDoc /\ store[i].venueId = NoVenue
                      /\ store[i].startDateTime < call.endDateTime
                      /\ store[i].endDateTime > call.startDateTime

\* C4: with an excludeId the result is the result of the call without
\* excludeId on the collection with that one document removed.
C4_ExcludeIdRemoved ==
    (Returned /\ call.excludeId # NoId) =>
        call.returned =
            BoolStr(checkForConflicts([store EXCEPT ![call.excludeId] = NoDoc],
                                      call.venueId, call.startDateTime,
                                      call.endDateTime, NoId))

\* C4 witness: a stored rehearsal is re-checked against its own unchanged
\* interval and venue, and the call returned false.
C4_Witness ==
    /\ call.returned = "false" /\ call.excludeId # NoId
    /\ store[call.excludeId] # NoDoc
    /\ store[call.excludeId].venueId = call.venueId /\ call.venueId # NoVenue
    /\ store[call.excludeId].startDateTime = call.startDateTime
    /\ store[call.excludeId].endDateTime = call.endDateTime

\* C6 (as claimed): a call whose candidate has end <= start is rejected with
\* InvalidInterval instead of returning a boolean.
C6_InvalidIntervalRejected ==
    (Returned /\ call.endDateTime <= call.startDateTime) =>
        call.returned = "InvalidInterval"

\* C7: with B the only stored rehearsal, checking candidate A at B's venue
\* gives the result of checking candidate B against a collection holding
\* only A.
C7_Symmetric ==
    \A i \in Ids :
        (/\ Returned /\ call.excludeId = NoId /\ call.venueId # NoVenue
         /\ endDateTimeValidator(call.startDateTime, call.endDateTime)
         /\ store = Only(store[i]) /\ store[i] # NoDoc
         /\ store[i].venueId = call.venueId) =>
            call.returned =
                BoolStr(checkForConflicts(
                    Only(RehearsalSchema(i, call.venueId, call.startDateTime,
                                         call.endDateTime, <<>>)),
                    call.venueId, store[i].startDateTime, store[i].endDateTime, NoId))

\* C8: after a call, whatever its arguments and result, the stored
\* rehearsals (interval, venue, attendees of each) are those the collection
\* held when the call was made.
C8_PureRead == Returned => store = call.before

\* C8 witness: a call found conflicts and returned true.
C8_Witness ==
    /\ call.returned = "true"
    /\ find(store, call.venueId, call.startDateTime, call.endDateTime,
            call.excludeId) # {}

\* C7 witness: the only stored rehearsal B overlaps a different candidate A
\* at its venue and the call returned true.
C7_Witness ==
    \E i \in Ids :
        /\ call.returned = "true" /\ call.excludeId = NoId
        /\ store = Only(store[i]) /\ store[i] # NoDoc
        /\ store[i].venueId = call.venueId
        /\ <<store[i].startDateTime, store[i].endDateTime>> #
               <<call.startDateTime, call.endDateTime>>
        /\ endDateTimeValidator(call.startDateTime, call.endDateTime)

====
